---- MODULE Spec2Model ----
(***************************************************************************)
(* Order status workflow (services/admin-orders.ts, services/operator-jobs *)
(* .ts) and the session/identity cache (lib/auth.ts and its admin portal   *)
(* variant) of the laser-cutting order management application.             *)
(*                                                                         *)
(* Part I models one row of the `orders` table and the service functions   *)
(* that write it.  Every service function is a single                      *)
(* supabase.from('orders').update(fields).eq('id', id) request, so each is *)
(* one atomic action; the store may refuse any request (UpstreamFailure).  *)
(***************************************************************************)
EXTENDS Integers, Sequences, FiniteSets, TLC

(***************************************************************************)
(* Bounds of the model.                                                    *)
(***************************************************************************)
MaxTime == 1
MaxTicks == 2
TickMs == 15000
MaxEvents == 2
MaxCallers == 2
MaxFetches == 2
MaxTok == 2
Subscriptions == 2

(***************************************************************************)
(* Program constants.                                                      *)
(***************************************************************************)
CACHE_DURATION == 30000
DB_TIMEOUT == 8000

(***************************************************************************)
(* Values.                                                                 *)
(***************************************************************************)
NULL == "null"
NoTime == 0 - 1
NullText == << >>
EmptyString == <<"">>

Admins == {"admin1"}
Operators == {"op1", "op2"}

\* OrderStatus, admin-orders.ts
OrderStatus ==
  {"pending", "confirmation_pending", "in_production", "cutting",
   "post_processing", "quality_check", "packaging", "shipped", "delivered",
   "cancelled"}

\* ProductionStatus, operator-jobs.ts
ProductionStatus == {"cutting", "post_processing", "quality_check", "packaging"}

\* Text inputs: a string is a sequence of fragments, "" is the one empty
\* fragment, null/undefined is the empty sequence.
Reasons == {<<"blurry proof">>}
\* (trackingNumber, trackingUrl) arguments of shipOrder
TrackingInputs == {<<NULL, NULL>>, <<"TRK1", "">>, <<"TRK1", "https://track/1">>}

\* JavaScript truthiness of an optional string argument: if (notes) ...
Truthy(s) == s # NullText /\ s # EmptyString
\* notes argument absent, or the empty string
NoNotes == {NullText, EmptyString}
TruthyId(s) == s # NULL /\ s # ""

VARIABLES
  order,      \* the row of the orders table
  history,    \* the rows of order_status_history for the order (oldest first)
  now,        \* the clock behind new Date()
  result      \* outcome of the latest service call

VARIABLES
  portal,            \* which auth module runs: "operator" (lib/auth.ts) or "admin"
  clock,             \* Date.now(), in milliseconds
  provSession,       \* the identity provider's current session
  events,            \* session-change notifications not yet handled
  subscribed,        \* number of callbacks subscribed through onAuthStateChange
  turn,              \* the subscription whose handler the first event reaches next
  delivered,         \* user id of the latest notification handed to the handler
  emitted,           \* number of notifications the provider has emitted
  authOp,            \* the signIn / signOut request awaiting its continuation
  signedInAs,        \* user of the latest signIn() that resolved, until sign-out
  currentUserCache,
  latestSession,
  lastUserId,
  fetchInProgress,
  fetchPromise,      \* 0 (null) or the fetch the promise belongs to
  fetches,           \* the fetchPromise bodies in flight, by slot
  awaiting,          \* number of getCurrentUser() callers awaiting each fetch
  handlers,          \* auth-change handlers awaiting each fetch (their event's user)
  out                \* what the latest step returned to callers and listeners

VARIABLES
  modal,      \* the OrderDetailsModal of each admin session
  jobModal,   \* the operator's JobDetailsModal
  queue,      \* the operator's JobQueue
  ui,         \* what the latest step showed the actor and told the parent
  loader      \* a detail view's loadOrderDetails / loadJobDetails run

ordVars == <<order, history, now, result>>

uiVars == <<modal, jobModal, queue, ui, loader>>

authVars ==
  <<portal, clock, provSession, events, subscribed, turn, delivered, emitted,
    authOp, signedInAs, currentUserCache, latestSession, lastUserId,
    fetchInProgress, fetchPromise,
    fetches, awaiting, handlers, out>>

vars == <<ordVars, authVars, uiVars>>

(***************************************************************************)
(* Part I.  The orders table and the services that write it.               *)
(***************************************************************************)

\* A fresh order as the storefront creates it: awaiting payment, or with a
\* payment proof uploaded and awaiting confirmation.
NewOrder(st) ==
  [ status                  |-> st,
    payment_proof_file_id   |-> IF st = "confirmation_pending" THEN "file1" ELSE NULL,
    payment_confirmed_by    |-> NULL,
    payment_confirmed_at    |-> NoTime,
    assigned_operator_id    |-> NULL,
    production_started_at   |-> NoTime,
    production_completed_at |-> NoTime,
    shipped_at              |-> NoTime,
    tracking_number         |-> NULL,
    tracking_url            |-> NULL,
    operator_notes          |-> NullText,
    status_updated_by       |-> NULL,
    status_updated_at       |-> NoTime ]

\* supabase.from('orders').update(fields).eq('id', id): the named columns
\* take the given values, every other column keeps its value.
StoreUpdate(row, fields) ==
  [c \in DOMAIN row |-> IF c \in DOMAIN fields THEN fields[c] ELSE row[c]]

\* A service call: the store either applies the update (the call resolves)
\* or reports an error (the call throws and nothing is written).  No
\* service inserts into order_status_history.
Call(op, actor, fields, storeOk) ==
  /\ order' = IF storeOk THEN StoreUpdate(order, fields) ELSE order
  /\ result' = IF storeOk THEN "ok" ELSE "UpstreamFailure"
  /\ UNCHANGED <<history, now, authVars, uiVars>>

\* The column values each service sends in its update request.
ApproveData(adminId) ==
  [ status               |-> "in_production",
    payment_confirmed_by |-> adminId,
    payment_confirmed_at |-> now,
    status_updated_by    |-> adminId ]

RejectData(adminId, reason) ==
  [ status                |-> "pending",
    operator_notes        |-> <<"Payment rejected: ">> \o reason,
    status_updated_by     |-> adminId,
    payment_proof_file_id |-> NULL ]

AssignData(operatorId, adminId) ==
  [ assigned_operator_id |-> operatorId,
    status_updated_by    |-> adminId ]

StatusUpdateData(newStatus, userId, notes) ==
  IF Truthy(notes)
    THEN [ status |-> newStatus, status_updated_by |-> userId,
           operator_notes |-> notes ]
    ELSE [ status |-> newStatus, status_updated_by |-> userId ]

StartProductionData(operatorId) ==
  [ status                |-> "cutting",
    production_started_at |-> now,
    status_updated_by     |-> operatorId ]

NotesData(notes, operatorId) ==
  [ operator_notes |-> notes, status_updated_by |-> operatorId ]

approvePayment(adminId, storeOk) ==
  /\ storeOk \in BOOLEAN
  /\ Call("approvePayment", adminId, ApproveData(adminId), storeOk)

rejectPayment(adminId, reason, storeOk) ==
  /\ storeOk \in BOOLEAN
  /\ Call("rejectPayment", adminId, RejectData(adminId, reason), storeOk)

assignToOperator(operatorId, adminId, storeOk) ==
  /\ storeOk \in BOOLEAN
  /\ Call("assignToOperator", adminId, AssignData(operatorId, adminId), storeOk)

updateOrderStatus(newStatus, userId, notes, storeOk) ==
  /\ storeOk \in BOOLEAN
  /\ Call("updateOrderStatus", userId,
       StatusUpdateData(newStatus, userId, notes), storeOk)

cancelOrder(adminId, reason, storeOk) ==
  /\ storeOk \in BOOLEAN
  /\ Call("cancelOrder", adminId,
       [ status            |-> "cancelled",
         operator_notes    |-> <<"Cancelled by admin: ">> \o reason,
         status_updated_by |-> adminId ], storeOk)

startProduction(operatorId, storeOk) ==
  /\ storeOk \in BOOLEAN
  /\ Call("startProduction", operatorId, StartProductionData(operatorId), storeOk)

\* JobUpdateData with the notes written whatever they are.
JobUpdateDataAlwaysNotes(newStatus, operatorId, notes) ==
  LET base == [ status |-> newStatus, status_updated_by |-> operatorId,
                operator_notes |-> notes ]
  IN  IF newStatus = "packaging"
        THEN [production_completed_at |-> now] @@ base ELSE base

\* updateData of updateJobStatus: notes only when truthy, the completion
\* time only when moving to packaging.
JobUpdateData(newStatus, operatorId, notes) ==
  LET base == [ status |-> newStatus, status_updated_by |-> operatorId ]
      withNotes == IF Truthy(notes)
                     THEN [operator_notes |-> notes] @@ base ELSE base
  IN  IF newStatus = "packaging"
        THEN [production_completed_at |-> now] @@ withNotes ELSE withNotes

updateJobStatus(newStatus, operatorId, notes, storeOk) ==
  /\ storeOk \in BOOLEAN
  /\ Call("updateJobStatus", operatorId,
       JobUpdateData(newStatus, operatorId, notes), storeOk)

addProductionNotes(notes, operatorId, storeOk) ==
  /\ storeOk \in BOOLEAN
  /\ Call("addProductionNotes", operatorId, NotesData(notes, operatorId), storeOk)

markReadyForShipping(operatorId, storeOk) ==
  /\ storeOk \in BOOLEAN
  /\ Call("markReadyForShipping", operatorId,
       [ status                  |-> "packaging",
         production_completed_at |-> now,
         status_updated_by       |-> operatorId ], storeOk)

ShipUpdateData(operatorId, trackingNumber, trackingUrl) ==
  LET base == [ status |-> "shipped", shipped_at |-> now,
                status_updated_by |-> operatorId ]
      withNum == IF TruthyId(trackingNumber)
                   THEN [tracking_number |-> trackingNumber] @@ base ELSE base
  IN  IF TruthyId(trackingUrl)
        THEN [tracking_url |-> trackingUrl] @@ withNum ELSE withNum

shipOrder(operatorId, trackingNumber, trackingUrl, storeOk) ==
  /\ storeOk \in BOOLEAN
  /\ Call("shipOrder", operatorId,
       ShipUpdateData(operatorId, trackingNumber, trackingUrl), storeOk)

\* Time passes between requests.
Tick ==
  /\ now < MaxTime
  /\ now' = now + 1
  /\ UNCHANGED <<order, history, result, authVars, uiVars>>

(***************************************************************************)
(* Part II.  The session/identity cache: lib/auth.ts (operator portal) and *)
(* the admin portal's variant of the same module.  JavaScript runs each    *)
(* stretch of code between two awaits without interruption, so every       *)
(* action below is one such stretch.                                       *)
(***************************************************************************)
Users == {"u1", "u2"}
Portals == {"operator", "admin"}
Slots == 1..MaxFetches

NoSession == [uid |-> NULL, tok |-> 0]
Session(u, k) == [uid |-> u, tok |-> k]

\* A User value: the profile row of the users table ("db") or the minimal
\* identity built from the session's auth metadata ("meta").
NoUser == [id |-> NULL, src |-> "none"]
ProfileRow(uid) == [id |-> uid, src |-> "db"]
Fallback(uid) == [id |-> uid, src |-> "meta"]

NoCache == [present |-> FALSE, user |-> NoUser, timestamp |-> 0]
CacheOf(user) == [present |-> TRUE, user |-> user, timestamp |-> clock]

FreeSlot == [pc |-> "free", uid |-> NULL, timerAt |-> 0]
Idle == [op |-> "none", ok |-> TRUE, session |-> NoSession]
EmptyOut ==
  [ call |-> "none", value |-> NoUser,
    resolved |-> FALSE, cause |-> "none", uid |-> NULL, result |-> NoUser,
    notified |-> << >>, did |-> "none", cleared |-> NoCache ]

\* if (currentUserCache && Date.now() - currentUserCache.timestamp < CACHE_DURATION)
CacheFresh(cache) == cache.present /\ clock - cache.timestamp < CACHE_DURATION

\* The body of fetchPromise up to its first await: with a stored session it
\* goes straight to the profile query (and arms the 8 s timer), otherwise it
\* awaits supabase.auth.getSession().
StartFetch(session) ==
  IF session = NoSession
    THEN [pc |-> "getSession", uid |-> NULL, timerAt |-> 0]
    ELSE [pc |-> "profile", uid |-> session.uid, timerAt |-> clock]

\* The synchronous part of getCurrentUser(), as a function of the module
\* state it reads: join the fetch in flight, answer from the cache, or start
\* a fetch ("blocked": the model has no slot left for another fetch).
GetCurrentUser(cache, session, inProgress, promise, fs) ==
  LET free == {f \in Slots : fs[f].pc = "free"}
      same == [f |-> 0, fetches |-> fs, inProgress |-> inProgress, promise |-> promise]
  IN  IF inProgress /\ promise # 0
        THEN [kind |-> "join"] @@ [same EXCEPT !.f = promise]
      ELSE IF CacheFresh(cache)
        THEN [kind |-> "cache"] @@ same
      ELSE IF free = {}
        THEN [kind |-> "blocked"] @@ same
      ELSE LET f == CHOOSE x \in free : \A y \in free : x <= y
           IN  [ kind |-> "fetch", f |-> f,
                 fetches |-> [fs EXCEPT ![f] = StartFetch(session)],
                 inProgress |-> TRUE, promise |-> f ]

\* A call of getCurrentUser() from outside the module (App.initAuth,
\* isAdmin(), ...).
GetCurrentUserCall ==
  LET r == GetCurrentUser(currentUserCache, latestSession, fetchInProgress,
                          fetchPromise, fetches)
  IN  /\ r.kind # "blocked"
      /\ IF r.kind = "cache" THEN TRUE ELSE awaiting[r.f] < MaxCallers
      /\ fetches' = r.fetches
      /\ fetchInProgress' = r.inProgress
      /\ fetchPromise' = r.promise
      /\ awaiting' = IF r.kind = "cache" THEN awaiting
                     ELSE [awaiting EXCEPT ![r.f] = @ + 1]
      /\ out' = [EmptyOut EXCEPT !.call = r.kind,
                                 !.value = IF r.kind = "cache"
                                             THEN currentUserCache.user ELSE NoUser]
      /\ UNCHANGED <<portal, subscribed, turn, delivered,
                     clock, provSession, events, emitted, authOp,
                     signedInAs, currentUserCache, latestSession, lastUserId,
                     handlers, ordVars, uiVars>>

\* The end of a fetchPromise body: finally { fetchInProgress = false;
\* fetchPromise = null }, then the promise resolves: every caller awaiting it
\* receives the value and every handler awaiting it invokes its callback.
Settle(f, value, cause) ==
  /\ fetches' = [fetches EXCEPT ![f] = FreeSlot]
  /\ fetchInProgress' = FALSE
  /\ fetchPromise' = 0
  /\ awaiting' = [awaiting EXCEPT ![f] = 0]
  /\ handlers' = [handlers EXCEPT ![f] = << >>]
  /\ out' = [EmptyOut EXCEPT
               !.resolved = TRUE, !.cause = cause, !.uid = fetches[f].uid,
               !.result = value,
               !.notified = [i \in 1..Len(handlers[f]) |->
                               [value |-> value, forUid |-> handlers[f][i]]]]

\* What a failed session lookup leaves in the cache.  lib/auth.ts: an error
\* result gives a null session, which is cached as "no user"; an exception
\* reaches the catch block, which caches nothing.  The admin variant turns
\* both into a null session and caches "no user".
CacheAfterSessionFailure(outcome) ==
  IF portal = "operator" /\ outcome = "throws"
    THEN currentUserCache ELSE CacheOf(NoUser)

\* The fetch resumes from await supabase.auth.getSession().
SessionLookup(f, outcome) ==
  LET session == IF outcome = "ok" THEN provSession ELSE NoSession
  IN  /\ fetches[f].pc = "getSession"
      /\ latestSession' = IF portal = "admin" /\ outcome = "ok"
                            THEN session ELSE latestSession
      /\ IF session = NoSession
           THEN /\ currentUserCache' =
                     IF outcome = "ok" THEN CacheOf(NoUser)
                     ELSE CacheAfterSessionFailure(outcome)
                /\ Settle(f, NoUser,
                          IF outcome = "ok" THEN "noSession"
                          ELSE IF outcome = "error" THEN "sessionError"
                          ELSE "sessionThrows")
           ELSE /\ fetches' = [fetches EXCEPT
                                 ![f] = [pc |-> "profile", uid |-> session.uid,
                                         timerAt |-> clock]]
                /\ out' = EmptyOut
                /\ UNCHANGED <<currentUserCache, fetchInProgress, fetchPromise,
                               awaiting, handlers>>
      /\ UNCHANGED <<portal, subscribed, turn, delivered,
                     clock, provSession, events, emitted, authOp,
                     signedInAs, lastUserId, ordVars, uiVars>>

\* Mutant of ProfileResult: a failed profile lookup yields null instead of
\* the identity of the session.
ProfileResultNoFallback(uid, outcome) ==
  IF outcome = "row" THEN ProfileRow(uid) ELSE NoUser

\* The value the profile stage produces for each way the users query can
\* end.  lib/auth.ts: a row, else the auth-metadata fallback (query error,
\* no row, the 8 s timer winning the race); an exception reaches the catch
\* block and gives null.  Admin variant: every failure gives the fallback.
ProfileResult(uid, outcome) ==
  IF outcome = "row" THEN ProfileRow(uid)
  ELSE IF outcome = "throws" /\ portal = "operator" THEN NoUser
  ELSE Fallback(uid)

\* Whether the profile stage writes its result into the cache: always,
\* except through the catch block of lib/auth.ts.
ProfileCaches(outcome) == ~(outcome = "throws" /\ portal = "operator")

\* The fetch resumes from the profile query (or from the timer).
ProfileLookup(f, outcome) ==
  LET uid == fetches[f].uid
      user == ProfileResult(uid, outcome)
  IN  /\ fetches[f].pc = "profile"
      /\ outcome = "timeout" =>
           (portal = "operator" /\ clock - fetches[f].timerAt >= DB_TIMEOUT)
      /\ currentUserCache' = IF ProfileCaches(outcome) THEN CacheOf(user)
                             ELSE currentUserCache
      /\ Settle(f, user, outcome)
      /\ UNCHANGED <<portal, subscribed, turn, delivered,
                     clock, provSession, events, emitted, authOp,
                     signedInAs, latestSession, lastUserId, ordVars, uiVars>>

\* supabase.auth.signInWithPassword: the provider installs the session and
\* notifies subscribers, or refuses.
SignInRequest(u, ok) ==
  /\ authOp = Idle
  /\ ok => emitted < MaxEvents
  /\ authOp' = [op |-> "signIn", ok |-> ok,
                session |-> IF ok THEN Session(u, 1) ELSE NoSession]
  /\ provSession' = IF ok THEN Session(u, 1) ELSE provSession
  /\ events' = IF ok THEN Append(events, Session(u, 1)) ELSE events
  /\ emitted' = IF ok THEN emitted + 1 ELSE emitted
  /\ out' = EmptyOut
  /\ UNCHANGED <<portal, subscribed, turn, delivered,
                 clock, signedInAs, currentUserCache, latestSession,
                 lastUserId, fetchInProgress, fetchPromise, fetches, awaiting,
                 handlers, ordVars, uiVars>>

\* latestSession after signIn() returns: lib/auth.ts leaves it alone, the
\* admin variant stores data.session.
SessionAfterSignIn(session) ==
  IF portal = "admin" THEN session ELSE latestSession

\* signIn() after its await: throw on error, else return data.
SignInReturn ==
  /\ authOp.op = "signIn"
  /\ authOp' = Idle
  /\ latestSession' = IF authOp.ok THEN SessionAfterSignIn(authOp.session)
                      ELSE latestSession
  /\ signedInAs' = IF authOp.ok THEN authOp.session.uid ELSE signedInAs
  /\ out' = EmptyOut
  /\ UNCHANGED <<portal, subscribed, turn, delivered,
                 clock, provSession, events, emitted, currentUserCache,
                 lastUserId, fetchInProgress, fetchPromise, fetches, awaiting,
                 handlers, ordVars, uiVars>>

\* supabase.auth.signOut: the provider drops the session and notifies
\* subscribers, or refuses.
SignOutRequest(ok) ==
  /\ authOp = Idle
  /\ ok => emitted < MaxEvents
  /\ authOp' = [op |-> "signOut", ok |-> ok, session |-> NoSession]
  /\ provSession' = IF ok THEN NoSession ELSE provSession
  /\ events' = IF ok THEN Append(events, NoSession) ELSE events
  /\ emitted' = IF ok THEN emitted + 1 ELSE emitted
  /\ signedInAs' = IF ok THEN NULL ELSE signedInAs
  /\ out' = EmptyOut
  /\ UNCHANGED <<portal, subscribed, turn, delivered,
                 clock, currentUserCache, latestSession, lastUserId,
                 fetchInProgress, fetchPromise, fetches, awaiting, handlers,
                 ordVars, uiVars>>

\* Mutant of CacheAfterSignOut: signOut() forgets to drop the cached profile.
CacheAfterSignOutKept == currentUserCache

\* currentUserCache after a successful signOut().
CacheAfterSignOut == NoCache

\* Mutant of SignOutThrows: signOut() ignores the provider's error.
SignOutThrowsNever == FALSE

\* if (error) throw error;
SignOutThrows == ~authOp.ok

\* signOut() after its await: throw on error; else clear the cache and the
\* stored session (the admin variant also drops the in-flight markers).
SignOutReturn ==
  /\ authOp.op = "signOut"
  /\ authOp' = Idle
  /\ IF ~SignOutThrows
       THEN /\ currentUserCache' = CacheAfterSignOut
            /\ latestSession' = NoSession
            /\ fetchInProgress' = IF portal = "admin" THEN FALSE ELSE fetchInProgress
            /\ fetchPromise' = IF portal = "admin" THEN 0 ELSE fetchPromise
       ELSE UNCHANGED <<currentUserCache, latestSession, fetchInProgress, fetchPromise>>
  /\ out' = IF ~SignOutThrows
              THEN [EmptyOut EXCEPT !.did = "signOut", !.cleared = currentUserCache]
              ELSE [EmptyOut EXCEPT !.did = "signOutFailed"]
  /\ UNCHANGED <<portal, subscribed, turn, delivered,
                 clock, provSession, events,
                 emitted, signedInAs, lastUserId, fetches, awaiting, handlers,
                 ordVars, uiVars>>

\* The provider refreshes the token of the current session and notifies
\* subscribers (TOKEN_REFRESHED): same user, new session object.
TokenRefresh ==
  /\ provSession # NoSession
  /\ provSession.tok < MaxTok
  /\ emitted < MaxEvents
  /\ provSession' = Session(provSession.uid, provSession.tok + 1)
  /\ events' = Append(events, provSession')
  /\ emitted' = emitted + 1
  /\ out' = EmptyOut
  /\ UNCHANGED <<portal, subscribed, turn, delivered,
                 clock, authOp, signedInAs, currentUserCache,
                 latestSession, lastUserId, fetchInProgress, fetchPromise,
                 fetches, awaiting, handlers, ordVars, uiVars>>

\* userChanged of the auth-change handler.  lib/auth.ts compares the
\* session's user id with lastUserId; the admin variant has no such test and
\* treats every event as a change.
UserChanged(session) ==
  IF portal = "admin" THEN TRUE ELSE session.uid # lastUserId

\* The handler registered by one onAuthStateChange subscription, from the
\* event up to its await getCurrentUser() (or to its end).  The provider
\* hands each event to every subscription in turn; all handlers read and
\* write the same module state.
AuthStateChange ==
  /\ events # << >>
  /\ LET session == Head(events)
         changed == UserChanged(session)
         cache == IF changed THEN NoCache ELSE currentUserCache
         r == GetCurrentUser(cache, session, fetchInProgress, fetchPromise, fetches)
         calls == changed /\ session # NoSession
     IN  /\ calls => r.kind # "blocked"
         /\ IF turn = subscribed
              THEN /\ events' = Tail(events)
                   /\ delivered' = session.uid
                   /\ turn' = 1
              ELSE /\ turn' = turn + 1
                   /\ UNCHANGED <<events, delivered>>
         /\ latestSession' = session
         /\ lastUserId' = IF changed /\ portal = "operator" THEN session.uid
                          ELSE lastUserId
         /\ currentUserCache' = cache
         /\ fetches' = IF calls THEN r.fetches ELSE fetches
         /\ fetchInProgress' = IF calls THEN r.inProgress ELSE fetchInProgress
         /\ fetchPromise' = IF calls THEN r.promise ELSE fetchPromise
         /\ handlers' = IF calls THEN [handlers EXCEPT ![r.f] = Append(@, session.uid)]
                        ELSE handlers
         /\ out' = [EmptyOut EXCEPT
                      !.did = IF changed THEN "userChanged" ELSE "sameUser",
                      !.cleared = IF changed THEN currentUserCache ELSE NoCache,
                      !.notified = IF changed /\ session = NoSession
                                     THEN <<[value |-> NoUser, forUid |-> NULL]>>
                                     ELSE << >>]
  /\ UNCHANGED <<portal, subscribed, clock, provSession, emitted, authOp,
                 signedInAs, awaiting, ordVars, uiVars>>

\* Time passes.
ClockTick ==
  /\ clock < MaxTicks * TickMs
  /\ clock' = clock + TickMs
  /\ out' = EmptyOut
  /\ UNCHANGED <<portal, subscribed, turn, delivered,
                 provSession, events, emitted, authOp, signedInAs,
                 currentUserCache, latestSession, lastUserId, fetchInProgress,
                 fetchPromise, fetches, awaiting, handlers, ordVars, uiVars>>

\* The module as loaded, with n callbacks subscribed: nothing cached,
\* nothing in flight.
AuthLoadedWith(p, session, n) ==
  /\ portal = p
  /\ subscribed = n
  /\ turn = 1
  /\ clock = 0
  /\ provSession = session
  /\ events = << >>
  /\ delivered = NULL
  /\ emitted = 0
  /\ authOp = Idle
  /\ signedInAs = NULL
  /\ currentUserCache = NoCache
  /\ latestSession = NoSession
  /\ lastUserId = NULL
  /\ fetchInProgress = FALSE
  /\ fetchPromise = 0
  /\ fetches = [f \in Slots |-> FreeSlot]
  /\ awaiting = [f \in Slots |-> 0]
  /\ handlers = [f \in Slots |-> << >>]
  /\ out = EmptyOut

\* The module as loaded by the portal: App subscribes one callback.
AuthLoaded(p, session) == AuthLoadedWith(p, session, 1)

(***************************************************************************)
(* Part III.  The views that issue the requests: OrderDetailsModal (admin), *)
(* JobDetailsModal and JobQueue (operator).  A view shows the order as it   *)
(* was handed to it (a snapshot); a handler runs up to its await (the       *)
(* request is issued), and its continuation runs when the store answers.    *)
(***************************************************************************)
MaxStarts == 2
MaxItems == 2

AdminViews == {"a1", "a2"}
\* currentUserId prop of each admin session, operatorId prop of the operator views
CurrentUserId(v) == "admin1"
OperatorId == "op1"

\* error.message of the store's error object
StoreMessage == "connection lost"

\* String.prototype.trim() on a text given as fragments.
RECURSIVE TrimStart(_)
TrimStart(s) ==
  IF s = << >> THEN << >>
  ELSE IF Head(s) \in {" ", ""} THEN TrimStart(Tail(s)) ELSE s

RECURSIVE TrimEnd(_)
TrimEnd(s) ==
  IF s = << >> THEN << >>
  ELSE IF s[Len(s)] \in {" ", ""} THEN TrimEnd(SubSeq(s, 1, Len(s) - 1)) ELSE s

Trim(s) == LET t == TrimEnd(TrimStart(s)) IN IF t = << >> THEN EmptyString ELSE t

\* !rejectReason.trim()
Blank(s) == Trim(s) = EmptyString

\* What the rejection dialog's textarea can hold.
ReasonInputs == Reasons \cup {<<" ">>}
NoteInputs == {EmptyString, <<"edges sanded">>}

\* The columns of an order_details_view row the views read.
Shown(o) ==
  [ status               |-> o.status,
    assigned_operator_id |-> o.assigned_operator_id,
    operator_notes       |-> o.operator_notes ]

NoOrder ==
  [ status |-> "none", assigned_operator_id |-> NULL, operator_notes |-> NullText ]

NoRequest == [ op |-> "none", fields |-> [ none |-> TRUE ] ]
Request(op, fields) == [ op |-> op, fields |-> fields ]

\* No alert, no callback.
Quiet ==
  [ view |-> "none", alert |-> NullText, updated |-> FALSE, closed |-> FALSE,
    thrown |-> NullText ]

\* The useState initial values of OrderDetailsModal (order: the prop).
ModalClosed ==
  [ isOpen |-> FALSE, order |-> NoOrder, loading |-> FALSE,
    showRejectDialog |-> FALSE, rejectReason |-> EmptyString,
    selectedOperator |-> "", request |-> NoRequest ]

\* The useState initial values of JobDetailsModal (job: the prop).
JobModalClosed ==
  [ isOpen |-> FALSE, job |-> NoOrder, notes |-> EmptyString, saving |-> FALSE,
    request |-> NoRequest ]

\* JobQueue as mounted: loading, its first loadJobs() outstanding.  oldLoads
\* and oldStarts are the calls still outstanding of instances that App has
\* replaced (key={refreshTrigger}).
QueueMounted ==
  [ job |-> NoOrder, loading |-> TRUE, loads |-> <<"mount">>, starts |-> << >>,
    oldLoads |-> << >>, oldStarts |-> << >> ]

\* new Error(`Failed to ...: ${error.message}`) of the admin services;
\* operator-jobs.ts rethrows the store's error object.
ServiceError(op) ==
  CASE op = "approvePayment"    -> <<"Failed to approve payment: ", StoreMessage>>
    [] op = "rejectPayment"     -> <<"Failed to reject payment: ", StoreMessage>>
    [] op = "assignToOperator"  -> <<"Failed to assign to operator: ", StoreMessage>>
    [] op = "updateOrderStatus" -> <<"Failed to update order status: ", StoreMessage>>
    [] OTHER                    -> <<StoreMessage>>

\* The alert of each handler after its request resolved.
SuccessAlert(op) ==
  CASE op = "approvePayment"     -> <<"Payment approved! Order moved to production.">>
    [] op = "rejectPayment"      -> <<"Payment rejected. Customer will be notified.">>
    [] op = "assignToOperator"   -> <<"Order assigned to operator">>
    [] op = "updateOrderStatus"  -> <<"Order status updated">>
    [] op = "updateJobStatus"    -> <<"Status updated to ">>
    [] op = "addProductionNotes" -> <<"Notes saved">>
    [] OTHER                     -> <<"Production started!">>

\* The alert of each handler's catch block: the admin modal shows
\* error.message, the operator views a fixed text.
FailureAlert(op) ==
  CASE op = "updateJobStatus"    -> <<"Failed to update status">>
    [] op = "addProductionNotes" -> <<"Failed to save notes">>
    [] op = "startProduction"    -> <<"Failed to start production">>
    [] OTHER                     -> ServiceError(op)

\* The store answers a request: the update is applied or refused.
StoreAnswers(r, storeOk) ==
  /\ order' = IF storeOk THEN StoreUpdate(order, r.fields) ELSE order
  /\ UNCHANGED <<history, now, result, authVars, loader>>

(* ---- OrderDetailsModal ---- *)

\* The parent opens the modal on an order of its list.
OpenOrder(v) ==
  /\ ~modal[v].isOpen
  /\ modal' = [modal EXCEPT ![v].isOpen = TRUE, ![v].order = Shown(order)]
  /\ ui' = Quiet
  /\ UNCHANGED <<ordVars, authVars, jobModal, queue, loader>>

\* onClose: the X button and the backdrop, never disabled.  While the
\* rejection dialog is shown its own backdrop covers the modal.
CloseOrder(v) ==
  /\ modal[v].isOpen
  /\ ~modal[v].showRejectDialog
  /\ modal' = [modal EXCEPT ![v].isOpen = FALSE, ![v].order = NoOrder]
  /\ ui' = Quiet
  /\ UNCHANGED <<ordVars, authVars, jobModal, queue, loader>>

\* A click on a button of modal v: the handler up to its await.
Issue(v, r) ==
  /\ modal' = [modal EXCEPT ![v].loading = TRUE, ![v].request = r]
  /\ ui' = Quiet
  /\ UNCHANGED <<ordVars, authVars, jobModal, queue, loader>>

\* "Approve Payment": shown while the displayed status is confirmation_pending.
handleApprovePayment(v) ==
  /\ modal[v].isOpen
  /\ ~modal[v].showRejectDialog
  /\ modal[v].order.status = "confirmation_pending"
  /\ ~modal[v].loading
  /\ Issue(v, Request("approvePayment", ApproveData(CurrentUserId(v))))

\* "Reject Payment" opens the dialog.
ShowRejectDialog(v) ==
  /\ modal[v].isOpen
  /\ modal[v].order.status = "confirmation_pending"
  /\ ~modal[v].loading
  /\ ~modal[v].showRejectDialog
  /\ modal' = [modal EXCEPT ![v].showRejectDialog = TRUE]
  /\ ui' = Quiet
  /\ UNCHANGED <<ordVars, authVars, jobModal, queue, loader>>

\* The dialog's textarea.
TypeRejectReason(v, text) ==
  /\ modal[v].isOpen
  /\ modal[v].showRejectDialog
  /\ ~modal[v].loading
  /\ modal[v].rejectReason # text
  /\ modal' = [modal EXCEPT ![v].rejectReason = text]
  /\ ui' = Quiet
  /\ UNCHANGED <<ordVars, authVars, jobModal, queue, loader>>

\* A click on the dialog's backdrop hides it and keeps the text.
DismissRejectDialog(v) ==
  /\ modal[v].isOpen
  /\ modal[v].showRejectDialog
  /\ modal' = [modal EXCEPT ![v].showRejectDialog = FALSE]
  /\ ui' = Quiet
  /\ UNCHANGED <<ordVars, authVars, jobModal, queue, loader>>

\* The dialog's Cancel button.
CancelRejectDialog(v) ==
  /\ modal[v].isOpen
  /\ modal[v].showRejectDialog
  /\ ~modal[v].loading
  /\ modal' = [modal EXCEPT ![v].showRejectDialog = FALSE,
                            ![v].rejectReason = EmptyString]
  /\ ui' = Quiet
  /\ UNCHANGED <<ordVars, authVars, jobModal, queue, loader>>

\* The dialog's "Reject Payment" button (disabled while loading or while the
\* reason is blank) and its handler, which tests the reason once more.
handleRejectPayment(v) ==
  /\ modal[v].isOpen
  /\ modal[v].showRejectDialog
  /\ ~modal[v].loading
  /\ ~Blank(modal[v].rejectReason)
  /\ IF Blank(modal[v].rejectReason)
       THEN /\ ui' = [Quiet EXCEPT !.view = v,
                        !.alert = <<"Please provide a reason for rejection">>]
            /\ UNCHANGED <<ordVars, authVars, modal, jobModal, queue, loader>>
       ELSE Issue(v, Request("rejectPayment",
                     RejectData(CurrentUserId(v), modal[v].rejectReason)))

\* The operator <select>, shown while the displayed order is in_production
\* and has no operator.
SelectOperator(v, op) ==
  /\ modal[v].isOpen
  /\ modal[v].order.status = "in_production"
  /\ modal[v].order.assigned_operator_id = NULL
  /\ ~modal[v].showRejectDialog
  /\ ~modal[v].loading
  /\ modal[v].selectedOperator # op
  /\ modal' = [modal EXCEPT ![v].selectedOperator = op]
  /\ ui' = Quiet
  /\ UNCHANGED <<ordVars, authVars, jobModal, queue, loader>>

\* "Assign" (disabled while loading or while nothing is selected).
handleAssignOperator(v) ==
  /\ modal[v].isOpen
  /\ modal[v].order.status = "in_production"
  /\ modal[v].order.assigned_operator_id = NULL
  /\ ~modal[v].showRejectDialog
  /\ ~modal[v].loading
  /\ modal[v].selectedOperator # ""
  /\ Issue(v, Request("assignToOperator",
               AssignData(modal[v].selectedOperator, CurrentUserId(v))))

\* The status buttons the modal renders for a displayed order.
AdminOffers(o) ==
  IF o.status = "in_production" /\ o.assigned_operator_id # NULL THEN {"cutting"}
  ELSE IF o.status = "packaging" THEN {"shipped"}
  ELSE IF o.status = "shipped" THEN {"delivered"}
  ELSE {}

\* "Start Cutting" / "Mark as Shipped" / "Mark as Delivered".
handleUpdateStatus(v, newStatus) ==
  /\ modal[v].isOpen
  /\ newStatus \in AdminOffers(modal[v].order)
  /\ ~modal[v].showRejectDialog
  /\ ~modal[v].loading
  /\ Issue(v, Request("updateOrderStatus",
               StatusUpdateData(newStatus, CurrentUserId(v), NullText)))

\* ModalAfter with onClose() moved into the finally block.
ModalAfterClosesAlways(m, storeOk) ==
  [m EXCEPT !.loading = FALSE, !.request = NoRequest,
            !.isOpen = FALSE, !.order = NoOrder]

\* The modal's state after a handler's continuation: on success
\* onOrderUpdated() and onClose() (after a rejection the dialog is reset),
\* on failure nothing; finally setLoading(false).
ModalAfter(m, storeOk) ==
  IF storeOk
    THEN [m EXCEPT !.loading = FALSE, !.request = NoRequest,
                   !.isOpen = FALSE, !.order = NoOrder,
                   !.showRejectDialog =
                      IF m.request.op = "rejectPayment" THEN FALSE ELSE @,
                   !.rejectReason =
                      IF m.request.op = "rejectPayment" THEN EmptyString ELSE @]
    ELSE [m EXCEPT !.loading = FALSE, !.request = NoRequest]

\* What a continuation shows and tells the parent.
Shows(v, op, storeOk, closes) ==
  [ view    |-> v,
    alert   |-> IF storeOk THEN SuccessAlert(op) ELSE FailureAlert(op),
    updated |-> storeOk,
    closed  |-> storeOk /\ closes,
    thrown  |-> IF storeOk THEN NullText ELSE ServiceError(op) ]

\* The store answers the request of modal v and the handler continues.
OrderRequestResolves(v, storeOk) ==
  /\ modal[v].request # NoRequest
  /\ StoreAnswers(modal[v].request, storeOk)
  /\ modal' = [modal EXCEPT ![v] = ModalAfter(@, storeOk)]
  /\ ui' = Shows(v, modal[v].request.op, storeOk, TRUE)
  /\ UNCHANGED <<jobModal, queue>>

(* ---- JobQueue ---- *)

\* The statuses getAssignedJobs selects.
JobStatuses == ProductionStatus \cup {"in_production"}

\* getAssignedJobs(operatorId) for the one order.
AssignedJob ==
  IF order.assigned_operator_id = OperatorId /\ order.status \in JobStatuses
    THEN Shown(order) ELSE NoOrder

\* The operator comes back to the queue page: the component mounts anew.
JobQueueMount ==
  /\ queue.loads = << >>
  /\ queue.starts = << >>
  /\ queue.oldLoads = << >>
  /\ queue.oldStarts = << >>
  /\ queue' = QueueMounted
  /\ ui' = Quiet
  /\ UNCHANGED <<ordVars, authVars, modal, jobModal, loader>>

RemoveAt(s, i) == SubSeq(s, 1, i - 1) \o SubSeq(s, i + 1, Len(s))

\* getAssignedJobs answers a loadJobs(); a load started by
\* handleStartProduction is followed by its alert.
loadJobs(i, storeOk) ==
  /\ i \in 1..Len(queue.loads)
  /\ queue' = [queue EXCEPT !.job = IF storeOk THEN AssignedJob ELSE @,
                            !.loading = FALSE,
                            !.loads = RemoveAt(@, i)]
  /\ ui' = [Quiet EXCEPT !.view = "queue",
              !.alert = IF queue.loads[i] = "start" THEN SuccessAlert("startProduction")
                        ELSE IF storeOk THEN NullText
                        ELSE <<"Failed to load jobs">>]
  /\ UNCHANGED <<ordVars, authVars, modal, jobModal, loader>>

\* "Start Production" on a job displayed as in_production, confirmed: the
\* handler up to await startProduction().  No state of the component
\* changes, the button stays as it is.
handleStartProduction ==
  /\ ~queue.loading
  /\ queue.job.status = "in_production"
  /\ Len(queue.starts) + Len(queue.loads)
       + Len(queue.oldStarts) + Len(queue.oldLoads) < MaxStarts
  /\ queue' = [queue EXCEPT !.starts = Append(@, StartProductionData(OperatorId))]
  /\ ui' = Quiet
  /\ UNCHANGED <<ordVars, authVars, modal, jobModal, loader>>

\* The store answers a startProduction request: on success the handler
\* goes on to await loadJobs(), on failure it alerts.
StartProductionResolves(i, storeOk) ==
  /\ i \in 1..Len(queue.starts)
  /\ StoreAnswers(Request("startProduction", queue.starts[i]), storeOk)
  /\ queue' = [queue EXCEPT !.starts = RemoveAt(@, i),
                            !.loading = IF storeOk THEN TRUE ELSE @,
                            !.loads = IF storeOk THEN Append(@, "start") ELSE @]
  /\ ui' = IF storeOk THEN Quiet
           ELSE [Shows("queue", "startProduction", FALSE, FALSE) EXCEPT
                   !.updated = FALSE]
  /\ UNCHANGED <<modal, jobModal>>

\* handleJobUpdated of App: refreshTrigger + 1, so JobQueue is mounted anew
\* under the new key; what the replaced instance had outstanding stays
\* outstanding.
Remounted(q) ==
  [QueueMounted EXCEPT !.oldLoads = q.oldLoads \o q.loads,
                       !.oldStarts = q.oldStarts \o q.starts]

\* The store answers a startProduction request of a replaced instance: its
\* handler goes on as in StartProductionResolves, its setLoading reaches no
\* mounted component.
OldStartResolves(i, storeOk) ==
  /\ i \in 1..Len(queue.oldStarts)
  /\ StoreAnswers(Request("startProduction", queue.oldStarts[i]), storeOk)
  /\ queue' = [queue EXCEPT !.oldStarts = RemoveAt(@, i),
                            !.oldLoads = IF storeOk THEN Append(@, "start") ELSE @]
  /\ ui' = IF storeOk THEN Quiet
           ELSE [Shows("queue", "startProduction", FALSE, FALSE) EXCEPT
                   !.updated = FALSE]
  /\ UNCHANGED <<modal, jobModal>>

\* getAssignedJobs answers a loadJobs() of a replaced instance: setJobs and
\* setLoading reach no mounted component, the alerts are shown.
OldLoadResolves(i, storeOk) ==
  /\ i \in 1..Len(queue.oldLoads)
  /\ queue' = [queue EXCEPT !.oldLoads = RemoveAt(@, i)]
  /\ ui' = [Quiet EXCEPT !.view = "queue",
              !.alert = IF queue.oldLoads[i] = "start"
                          THEN SuccessAlert("startProduction")
                        ELSE IF storeOk THEN NullText
                        ELSE <<"Failed to load jobs">>]
  /\ UNCHANGED <<ordVars, authVars, modal, jobModal, loader>>

(* ---- JobDetailsModal ---- *)

\* "View & Update" on a job of the queue: onViewJob(job).
OpenJob ==
  /\ ~jobModal.isOpen
  /\ ~queue.loading
  /\ queue.job # NoOrder
  /\ queue.job.status # "in_production"
  /\ jobModal' = [jobModal EXCEPT
                    !.isOpen = TRUE, !.job = queue.job,
                    !.notes = IF Truthy(queue.job.operator_notes)
                                THEN queue.job.operator_notes ELSE EmptyString]
  /\ ui' = Quiet
  /\ UNCHANGED <<ordVars, authVars, modal, queue, loader>>

CloseJob ==
  /\ jobModal.isOpen
  /\ jobModal' = [jobModal EXCEPT !.isOpen = FALSE, !.job = NoOrder]
  /\ ui' = Quiet
  /\ UNCHANGED <<ordVars, authVars, modal, queue, loader>>

\* The production notes textarea.
TypeNotes(text) ==
  /\ jobModal.isOpen
  /\ jobModal.notes # text
  /\ jobModal' = [jobModal EXCEPT !.notes = text]
  /\ ui' = Quiet
  /\ UNCHANGED <<ordVars, authVars, modal, queue, loader>>

\* nextStatus of JobDetailsModal
NextStatus(status) ==
  CASE status = "cutting"         -> "post_processing"
    [] status = "post_processing" -> "quality_check"
    [] status = "quality_check"   -> "packaging"
    [] OTHER                      -> NULL

IssueJob(r) ==
  /\ jobModal' = [jobModal EXCEPT !.saving = TRUE, !.request = r]
  /\ ui' = Quiet
  /\ UNCHANGED <<ordVars, authVars, modal, queue, loader>>

\* "Move to ...", confirmed.
handleUpdateJobStatus ==
  /\ jobModal.isOpen
  /\ NextStatus(jobModal.job.status) # NULL
  /\ ~jobModal.saving
  /\ IssueJob(Request("updateJobStatus",
        JobUpdateData(NextStatus(jobModal.job.status), OperatorId, jobModal.notes)))

\* The store answers the request of handleUpdateStatus and the handler
\* continues: onJobUpdated() (handleJobUpdated of App: the queue is mounted
\* anew, the modal hidden) and onClose().
JobRequestResolves(storeOk) ==
  /\ jobModal.request # NoRequest
  /\ StoreAnswers(jobModal.request, storeOk)
  /\ LET closes == storeOk /\ jobModal.request.op = "updateJobStatus"
     IN  /\ jobModal' = [jobModal EXCEPT
                           !.saving = FALSE, !.request = NoRequest,
                           !.isOpen = IF closes THEN FALSE ELSE @,
                           !.job = IF closes THEN NoOrder ELSE @]
         /\ ui' = Shows("job", jobModal.request.op, storeOk,
                        jobModal.request.op = "updateJobStatus")
  /\ queue' = IF storeOk THEN Remounted(queue) ELSE queue
  /\ UNCHANGED modal

(* ---- loadOrderDetails / loadJobDetails ---- *)

\* order.items as the loaders use it: item k has a design_file_url or not.
ItemLists == UNION {[1..n -> BOOLEAN] : n \in 0..MaxItems}

LoadViews == {"admin", "job"}

\* What the history query returns when it succeeds.
HistoryRows == <<"created">>

\* The useState initial values of a detail view (statusHistory, operators,
\* paymentProofUrl, designFileUrls: the item ids that have a link), with the
\* position of its loader, the loader's local urls, and what failed in the
\* load under way.
LoaderMounted ==
  [ pc |-> "idle", view |-> "none", isOpen |-> FALSE,
    hasProof |-> FALSE, items |-> << >>, i |-> 1, urls |-> {},
    statusHistory |-> << >>, operators |-> << >>, paymentProofUrl |-> NULL,
    designFileUrls |-> {},
    historyFailed |-> FALSE, operatorsFailed |-> FALSE, proofFailed |-> FALSE,
    failed |-> {} ]

\* The for loop over order.items from item l.i on, up to its next await:
\* items without a design_file_url are passed over; after the last item
\* setDesignFileUrls(urls).
ToItems(l) ==
  LET rest == {k \in l.i..Len(l.items) : l.items[k]}
  IN  IF rest = {}
        THEN [l EXCEPT !.pc = "done", !.i = Len(l.items) + 1,
                       !.designFileUrls = l.urls]
        ELSE [l EXCEPT !.pc = "items",
                       !.i = CHOOSE k \in rest : \A j \in rest : k <= j]

\* useEffect of a detail view on a newly opened order: the loader starts and
\* awaits the status history.  The state of the earlier load stays.
StartLoad(view, hasProof, items) ==
  /\ loader.pc \in {"idle", "done"}
  /\ view = "job" => ~hasProof
  /\ loader' = [loader EXCEPT
                  !.pc = "history", !.view = view, !.isOpen = TRUE,
                  !.hasProof = hasProof, !.items = items, !.i = 1, !.urls = {},
                  !.historyFailed = FALSE, !.operatorsFailed = FALSE,
                  !.proofFailed = FALSE, !.failed = {}]
  /\ UNCHANGED <<ordVars, authVars, modal, jobModal, queue, ui>>

\* getOrderStatusHistory / getJobStatusHistory resolve: the rows, or [] when
\* the query failed; then setStatusHistory.
HistoryResolves(ok) ==
  /\ loader.pc = "history"
  /\ LET l == [loader EXCEPT
                 !.statusHistory = IF ok THEN HistoryRows ELSE << >>,
                 !.historyFailed = ~ok]
     IN  loader' = IF loader.view = "admin"
                     THEN [l EXCEPT !.pc = "operators"] ELSE ToItems(l)
  /\ UNCHANGED <<ordVars, authVars, modal, jobModal, queue, ui>>

\* getOperators resolves, or throws into the outer catch block, which ends
\* loadOrderDetails.
OperatorsResolves(ok) ==
  /\ loader.pc = "operators"
  /\ loader' =
       IF ~ok THEN [loader EXCEPT !.pc = "done", !.operatorsFailed = TRUE]
       ELSE LET l == [loader EXCEPT !.operators = <<OperatorId>>]
            IN  IF l.hasProof THEN [l EXCEPT !.pc = "proof"] ELSE ToItems(l)
  /\ UNCHANGED <<ordVars, authVars, modal, jobModal, queue, ui>>

\* getFileUrl(order.payment_proof_file_id) resolves or throws into the inner
\* catch block (setPaymentProofUrl(null)).
ProofResolves(ok) ==
  /\ loader.pc = "proof"
  /\ loader' = ToItems([loader EXCEPT
                          !.paymentProofUrl = IF ok THEN "proofUrl" ELSE NULL,
                          !.proofFailed = ~ok])
  /\ UNCHANGED <<ordVars, authVars, modal, jobModal, queue, ui>>

\* AfterItem without the try/catch inside the loop: the failure ends the load.
AfterItemAborts(l, ok) ==
  IF ok
    THEN ToItems([l EXCEPT !.urls = @ \cup {l.i}, !.i = @ + 1])
    ELSE [l EXCEPT !.pc = "done", !.failed = @ \cup {l.i}]

\* The loader after getSignedUrlFromPath(item.design_file_url) of item l.i:
\* urls[item.id] = signedUrl, or the inner catch block; then the next item.
AfterItem(l, ok) ==
  ToItems([l EXCEPT !.urls = IF ok THEN @ \cup {l.i} ELSE @,
                    !.failed = IF ok THEN @ ELSE @ \cup {l.i},
                    !.i = @ + 1])

ItemResolves(ok) ==
  /\ loader.pc = "items"
  /\ loader' = AfterItem(loader, ok)
  /\ UNCHANGED <<ordVars, authVars, modal, jobModal, queue, ui>>

\* The views before anybody has touched them.
ViewsMounted ==
  /\ modal = [v \in AdminViews |-> ModalClosed]
  /\ jobModal = JobModalClosed
  /\ queue = QueueMounted
  /\ ui = Quiet

(***************************************************************************)
(* Specifications.                                                         *)
(***************************************************************************)
InitOrders ==
  /\ order \in {NewOrder("pending"), NewOrder("confirmation_pending")}
  /\ history = << >>
  /\ now = 0
  /\ result = "none"
  /\ AuthLoaded("operator", NoSession)
  /\ ViewsMounted
  /\ loader = LoaderMounted

\* A refused request leaves the same state whatever its arguments were, so
\* the refusals are enumerated with one argument tuple per service.
ArgsIf(storeOk, all, one) == IF storeOk THEN all ELSE {one}

NextOrders ==
  \/ \E a \in Admins, ok \in BOOLEAN : approvePayment(a, ok)
  \/ \E ok \in BOOLEAN : \E r \in ArgsIf(ok, ReasonInputs, <<"blurry proof">>),
        a \in Admins :
        rejectPayment(a, r, ok)
  \/ \E ok \in BOOLEAN : \E p \in ArgsIf(ok, Operators, "op1"), a \in Admins :
        assignToOperator(p, a, ok)
  \/ \E ok \in BOOLEAN : \E s \in ArgsIf(ok, OrderStatus, "pending"),
        n \in ArgsIf(ok, {NullText, <<"edges sanded">>}, NullText), a \in Admins :
        updateOrderStatus(s, a, n, ok)
  \/ \E a \in Admins, r \in Reasons, ok \in BOOLEAN : cancelOrder(a, r, ok)
  \/ \E ok \in BOOLEAN : \E p \in ArgsIf(ok, Operators, "op1") : startProduction(p, ok)
  \/ \E ok \in BOOLEAN : \E s \in ArgsIf(ok, ProductionStatus, "cutting"),
        n \in ArgsIf(ok, {EmptyString, <<"edges sanded">>}, EmptyString),
        p \in ArgsIf(ok, Operators, "op1") :
        updateJobStatus(s, p, n, ok)
  \/ \E ok \in BOOLEAN : \E n \in {<<"edges sanded">>}, p \in ArgsIf(ok, Operators, "op1") :
        addProductionNotes(n, p, ok)
  \/ \E ok \in BOOLEAN : \E p \in ArgsIf(ok, Operators, "op1") : markReadyForShipping(p, ok)
  \/ \E ok \in BOOLEAN : \E t \in ArgsIf(ok, TrackingInputs, <<NULL, NULL>>),
        p \in ArgsIf(ok, Operators, "op1") :
        shipOrder(p, t[1], t[2], ok)
  \/ Tick

SpecOrders == InitOrders /\ [][NextOrders]_vars

\* Assignment, note-taking and the two general status updates, with notes
\* given, empty and absent, on an order whose payment may have been rejected.
NextFrame ==
  \/ \E ok \in BOOLEAN : \E r \in ArgsIf(ok, Reasons, <<"blurry proof">>),
        a \in Admins :
        rejectPayment(a, r, ok)
  \/ \E ok \in BOOLEAN : \E p \in ArgsIf(ok, Operators, "op1"), a \in Admins :
        assignToOperator(p, a, ok)
  \/ \E ok \in BOOLEAN : \E s \in ArgsIf(ok, OrderStatus, "pending"),
        n \in ArgsIf(ok, NoNotes \cup {<<"edges sanded">>}, NullText), a \in Admins :
        updateOrderStatus(s, a, n, ok)
  \/ \E ok \in BOOLEAN : \E s \in ArgsIf(ok, ProductionStatus, "cutting"),
        n \in ArgsIf(ok, NoNotes \cup {<<"edges sanded">>}, EmptyString),
        p \in ArgsIf(ok, Operators, "op1") :
        updateJobStatus(s, p, n, ok)
  \/ \E ok \in BOOLEAN : \E n \in ArgsIf(ok, NoNotes \cup {<<"edges sanded">>}, EmptyString),
        p \in ArgsIf(ok, Operators, "op1") :
        addProductionNotes(n, p, ok)
  \/ Tick

SpecFrame == InitOrders /\ [][NextFrame]_vars

InitAuth ==
  /\ \E p \in Portals : AuthLoaded(p, NoSession)
  /\ order = NewOrder("pending")
  /\ history = << >>
  /\ now = 0
  /\ result = "none"
  /\ ViewsMounted
  /\ loader = LoaderMounted

SessionOutcomes == {"ok", "error", "throws"}
ProfileOutcomes == {"row", "error", "noRow", "timeout", "throws"}

NextAuth ==
  \/ GetCurrentUserCall
  \/ \E f \in Slots, o \in SessionOutcomes : SessionLookup(f, o)
  \/ \E f \in Slots, o \in ProfileOutcomes : ProfileLookup(f, o)
  \/ \E u \in Users, ok \in BOOLEAN : SignInRequest(u, ok)
  \/ SignInReturn
  \/ \E ok \in BOOLEAN : SignOutRequest(ok)
  \/ SignOutReturn
  \/ TokenRefresh
  \/ AuthStateChange
  \/ ClockTick

SpecAuth == InitAuth /\ [][NextAuth]_vars

\* What the runtime guarantees about the module's own steps: time passes,
\* a due setTimeout callback runs (the 8 s timer of the profile stage) and a
\* delivered auth event runs its handler.  Nothing makes the provider
\* answer: the session lookup, the profile query and the signIn/signOut
\* requests carry no fairness.
SpecAuthFair ==
  /\ InitAuth /\ [][NextAuth]_vars
  /\ WF_vars(ClockTick)
  /\ WF_vars(AuthStateChange)
  /\ \A f \in Slots : WF_vars(ProfileLookup(f, "timeout"))

\* The same module with several callbacks subscribed through
\* onAuthStateChange.
InitSubs ==
  /\ \E p \in Portals : AuthLoadedWith(p, NoSession, Subscriptions)
  /\ order = NewOrder("pending")
  /\ history = << >>
  /\ now = 0
  /\ result = "none"
  /\ ViewsMounted
  /\ loader = LoaderMounted

SpecSubs == InitSubs /\ [][NextAuth]_vars

\* Two admin sessions working on the order from its payment confirmation.
InitAdmin ==
  /\ order = NewOrder("confirmation_pending")
  /\ history = << >>
  /\ now = 0
  /\ result = "none"
  /\ AuthLoaded("operator", NoSession)
  /\ ViewsMounted
  /\ loader = LoaderMounted

NextAdmin ==
  \/ \E v \in AdminViews : OpenOrder(v)
  \/ \E v \in AdminViews : CloseOrder(v)
  \/ \E v \in AdminViews : handleApprovePayment(v)
  \/ \E v \in AdminViews : ShowRejectDialog(v)
  \/ \E v \in AdminViews, text \in ReasonInputs : TypeRejectReason(v, text)
  \/ \E v \in AdminViews : CancelRejectDialog(v)
  \/ \E v \in AdminViews : DismissRejectDialog(v)
  \/ \E v \in AdminViews : handleRejectPayment(v)
  \/ \E v \in AdminViews, op \in {"", OperatorId} : SelectOperator(v, op)
  \/ \E v \in AdminViews : handleAssignOperator(v)
  \/ \E v \in AdminViews, s \in OrderStatus : handleUpdateStatus(v, s)
  \/ \E v \in AdminViews, ok \in BOOLEAN : OrderRequestResolves(v, ok)

SpecAdmin == InitAdmin /\ [][NextAdmin]_vars

\* The order once approved and assigned to the operator.
AssignedOrder ==
  StoreUpdate(StoreUpdate(NewOrder("confirmation_pending"), ApproveData("admin1")),
              AssignData(OperatorId, "admin1"))

\* Production: the operator's queue and job modal and one admin session
\* with the status buttons of its modal.
InitProduction ==
  /\ now = 0
  /\ order = AssignedOrder
  /\ history = << >>
  /\ result = "none"
  /\ AuthLoaded("operator", NoSession)
  /\ ViewsMounted
  /\ loader = LoaderMounted

NextProduction ==
  \/ OpenOrder("a1")
  \/ CloseOrder("a1")
  \/ \E s \in OrderStatus : handleUpdateStatus("a1", s)
  \/ \E ok \in BOOLEAN : OrderRequestResolves("a1", ok)
  \/ JobQueueMount
  \/ \E i \in 1..MaxStarts, ok \in BOOLEAN : loadJobs(i, ok)
  \/ handleStartProduction
  \/ \E i \in 1..MaxStarts, ok \in BOOLEAN : StartProductionResolves(i, ok)
  \/ \E i \in 1..MaxStarts, ok \in BOOLEAN : OldStartResolves(i, ok)
  \/ \E i \in 1..MaxStarts + 1, ok \in BOOLEAN : OldLoadResolves(i, ok)
  \/ OpenJob
  \/ CloseJob
  \/ \E text \in NoteInputs : TypeNotes(text)
  \/ handleUpdateJobStatus
  \/ \E ok \in BOOLEAN : JobRequestResolves(ok)
  \/ Tick

SpecProduction == InitProduction /\ [][NextProduction]_vars

\* The detail views loading their auxiliary data, for orders with up to
\* MaxItems items.
InitLoad == InitProduction

NextLoad ==
  \/ \E view \in LoadViews, hasProof \in BOOLEAN, items \in ItemLists :
       StartLoad(view, hasProof, items)
  \/ \E ok \in BOOLEAN : HistoryResolves(ok)
  \/ \E ok \in BOOLEAN : OperatorsResolves(ok)
  \/ \E ok \in BOOLEAN : ProofResolves(ok)
  \/ \E ok \in BOOLEAN : ItemResolves(ok)

SpecLoad == InitLoad /\ [][NextLoad]_vars

(***************************************************************************)
(* Claims about the order status workflow.                                 *)
(***************************************************************************)

\* The transition table of the specification, section 4.1.
TableEdges ==
  { <<"confirmation_pending", "in_production">>,
    <<"confirmation_pending", "pending">>,
    <<"pending", "cancelled">>,
    <<"confirmation_pending", "cancelled">>,
    <<"in_production", "cutting">>,
    <<"cutting", "post_processing">>,
    <<"post_processing", "quality_check">>,
    <<"quality_check", "packaging">>,
    <<"packaging", "shipped">>,
    <<"shipped", "delivered">> }

\* Position of a status in the chain pending ... delivered.
Rank(st) ==
  CASE st = "pending"              -> 0
    [] st = "confirmation_pending" -> 1
    [] st = "in_production"        -> 2
    [] st = "cutting"              -> 3
    [] st = "post_processing"      -> 4
    [] st = "quality_check"        -> 5
    [] st = "packaging"            -> 6
    [] st = "shipped"              -> 7
    [] st = "delivered"            -> 8
    [] OTHER                       -> 9

InProductionOrLater(st) == Rank(st) >= 2 /\ Rank(st) <= 8

\* A step that writes a different status into the row.
StatusChanged == order'.status # order.status

\* C1: the status of an order changes only along an edge of the section 4.1
\* table; a request for any other edge leaves the status unchanged.
C1_OnlyTableEdges ==
  [][StatusChanged => <<order.status, order'.status>> \in TableEdges]_vars

\* A call by operator p to one of the operator-triggered transitions.
OperatorTransitionBy(p) ==
  \E ok \in BOOLEAN :
    \/ startProduction(p, ok)
    \/ \E s \in ProductionStatus, n \in {EmptyString, <<"edges sanded">>} :
         updateJobStatus(s, p, n, ok)
    \/ markReadyForShipping(p, ok)
    \/ \E t \in TrackingInputs : shipOrder(p, t[1], t[2], ok)

\* C2: an operator-triggered transition requested by an operator the order
\* is not assigned to is rejected with Unauthorized: the order is unchanged
\* and no history entry is produced.
C2_UnassignedOperatorRejected ==
  [][\A p \in Operators :
       (OperatorTransitionBy(p) /\ order.assigned_operator_id # p)
         => (order' = order /\ history' = history)]_vars

\* C3: every successful status transition appends exactly one history entry
\* with the status before and after it, and nothing else touches the history.
C3_OneHistoryEntryPerTransition ==
  [][/\ StatusChanged =>
          history' = Append(history, [old_status |-> order.status,
                                      new_status |-> order'.status])
     /\ ~StatusChanged => history' = history]_vars

\* Text t ends with the text tail, after the whole of the text old.
AppendedTo(old, tail, t) ==
  /\ Len(t) >= Len(old) + Len(tail)
  /\ SubSeq(t, 1, Len(old)) = old
  /\ SubSeq(t, Len(t) - Len(tail) + 1, Len(t)) = tail

\* C14: rejectPayment with reason r on an order in confirmation_pending sets
\* the status to pending, clears payment_proof_file_id and appends
\* 'Payment rejected: r' to the notes the order already has.
C14_RejectionAppendsToNotes ==
  [][\A a \in Admins, r \in Reasons :
       (order.status = "confirmation_pending" /\ rejectPayment(a, r, TRUE))
         => /\ order'.status = "pending"
            /\ order'.payment_proof_file_id = NULL
            /\ AppendedTo(order.operator_notes, <<"Payment rejected: ">> \o r,
                  order'.operator_notes)]_vars

\* C15: an order enters in_production only by the approval of a
\* confirmation_pending order: an order in_production or later has
\* payment_confirmed_by and payment_confirmed_at, and only approvePayment
\* writes those two fields.
C15_InProductionOnlyByApproval ==
  [][/\ (StatusChanged /\ order'.status = "in_production")
          => /\ order.status = "confirmation_pending"
             /\ \E a \in Admins : approvePayment(a, TRUE)
     /\ InProductionOrLater(order'.status)
          => /\ order'.payment_confirmed_by # NULL
             /\ order'.payment_confirmed_at # NoTime
     /\ (\/ order'.payment_confirmed_by # order.payment_confirmed_by
         \/ order'.payment_confirmed_at # order.payment_confirmed_at)
          => \E a \in Admins : approvePayment(a, TRUE)]_vars

\* C18: a rejection with an empty or whitespace-only reason is refused
\* before any write: the call does not succeed and the order (status, notes,
\* payment-proof reference) is left as it was.
C18_BlankReasonRefused ==
  [][\A a \in Admins, r \in ReasonInputs, ok \in BOOLEAN :
       (Blank(r) /\ rejectPayment(a, r, ok))
         => (order' = order /\ result' # "ok")]_vars

\* C10: cancelled is terminal: once cancelled, the status stays cancelled.
C10_CancelledIsTerminal ==
  [][order.status = "cancelled" => order'.status = "cancelled"]_vars

(***************************************************************************)
(* Claims about the session/identity cache.                                *)
(***************************************************************************)
InFlight == {f \in Slots : fetches[f].pc # "free"}

\* C4: single-flight: while one fetch is outstanding no second session or
\* profile lookup is started, whatever signOut() and auth events do in between.
C4_SingleFlight == Cardinality(InFlight) <= 1

\* Steps of the environment and of the module, recognised by their effect.
SignOutSucceeds == authOp.op = "signOut" /\ authOp.ok /\ authOp' = Idle
EventHandled == events # << >> /\ events' = Tail(events)
IdentityChangeHandled == EventHandled /\ Head(events).uid # delivered
TokenRefreshHandled ==
  EventHandled /\ Head(events) # NoSession /\ Head(events).uid = delivered
FetchResolves == out'.resolved
CallReturns == out'.call # "none"

\* C5: a resolved fetch is cached whatever its outcome; the cached entry
\* stays until sign-out or an identity change; a call at cache age under 30 s
\* returns the cached object without a lookup, a call at age 30 s or more
\* starts a fetch.
C5_CachedForThirtySeconds ==
  [][/\ FetchResolves =>
          currentUserCache' = [present |-> TRUE, user |-> out'.result,
                               timestamp |-> clock]
     /\ (currentUserCache.present /\ currentUserCache' # currentUserCache) =>
          (SignOutSucceeds \/ IdentityChangeHandled \/ FetchResolves)
     /\ (CallReturns /\ CacheFresh(currentUserCache)) =>
          (out'.call = "cache" /\ out'.value = currentUserCache.user
             /\ fetches' = fetches)
     /\ (CallReturns /\ currentUserCache.present /\ ~CacheFresh(currentUserCache)) =>
          out'.call # "cache"]_vars

\* C6: an auth-state event for the user already observed (a token refresh)
\* only replaces the stored session: the cache is untouched, no fetch
\* starts and the listener callback is not invoked.
C6_TokenRefreshIsSilent ==
  [][TokenRefreshHandled =>
       /\ latestSession' = Head(events)
       /\ currentUserCache' = currentUserCache
       /\ fetches' = fetches
       /\ handlers' = handlers
       /\ out'.notified = << >>]_vars

C8_InvalidatedOnSignIn ==
  (out.call = "cache" /\ signedInAs # NULL /\ provSession.uid = signedInAs)
    => out.value.id = signedInAs

SessionFailures == {"sessionError", "sessionThrows"}
ProfileFailures == {"error", "noRow", "timeout"}

\* C9 as stated: on any lookup failure (session lookup error or exception,
\* profile query error, no row, timer) the call resolves to the minimal
\* identity of the session, not to null.
C9_FallbackOnAnyFailure ==
  (out.resolved /\ out.cause \in SessionFailures \cup ProfileFailures)
    => (out.result.src = "meta" /\ out.result.id \in Users)

\* C9 amended: a failed profile lookup (query error, no row, timer) resolves
\* to the minimal identity of the session's user; a failed session lookup
\* leaves no session to fall back on and resolves to null.
C9_FallbackOnProfileFailure ==
  out.resolved =>
    /\ out.cause \in ProfileFailures =>
         (out.uid \in Users /\ out.result = [id |-> out.uid, src |-> "meta"])
    /\ out.cause \in SessionFailures => out.result = NoUser

\* C9 witness: a fetch for u1 resolved through the 8 s timer.
C9_Witness ==
  /\ out.resolved
  /\ out.cause = "timeout"
  /\ out.result = [id |-> "u1", src |-> "meta"]

(***************************************************************************)
(* Claims about the views and the order they work on.                      *)
(***************************************************************************)
\* The fields a transition into status st sets besides the status itself
\* (specification, section 4.1).
SideEffectsPresent(row) ==
  /\ row.status = "in_production" => row.payment_confirmed_at # NoTime
  /\ row.status = "cutting" => row.production_started_at # NoTime
  /\ row.status = "packaging" => row.production_completed_at # NoTime
  /\ row.status = "shipped" => row.shipped_at # NoTime

\* C12: a status transition is atomic for every reader: in the state in
\* which the new status is visible, the side-effect fields of the
\* transition, status_updated_by, status_updated_at and the history entry of
\* the transition are visible too.
C12_TransitionAtomic ==
  [][StatusChanged =>
       /\ SideEffectsPresent(order')
       /\ order'.status_updated_by # NULL
       /\ order'.status_updated_at = now'
       /\ Len(history') = Len(history) + 1
       /\ history'[Len(history')].new_status = order'.status]_vars

\* C11: once the status is in_production or later no action of an admin or
\* operator, from whatever view, moves it to an earlier status of the chain.
C11_NeverBackward ==
  [][InProductionOrLater(order.status) => Rank(order'.status) >= Rank(order.status)]_vars

\* C13: production_started_at is written once, by the in_production ->
\* cutting transition; production_completed_at once, by quality_check ->
\* packaging; shipped_at once, by packaging -> shipped; so an order in cutting
\* or later has production_started_at and an order shipped or delivered has
\* shipped_at, whichever actor or view made the transition.
C13_TimestampsOnceAtTransition ==
  [][/\ order'.production_started_at # order.production_started_at
          => /\ order.production_started_at = NoTime
             /\ order.status = "in_production" /\ order'.status = "cutting"
     /\ order'.production_completed_at # order.production_completed_at
          => /\ order.production_completed_at = NoTime
             /\ order.status = "quality_check" /\ order'.status = "packaging"
     /\ order'.shipped_at # order.shipped_at
          => /\ order.shipped_at = NoTime
             /\ order.status = "packaging" /\ order'.status = "shipped"
     /\ (Rank(order'.status) >= 3 /\ Rank(order'.status) <= 8)
          => order'.production_started_at # NoTime
     /\ (Rank(order'.status) >= 7 /\ Rank(order'.status) <= 8)
          => order'.shipped_at # NoTime]_vars

\* C16: assigned_operator_id goes from null to an operator only while the
\* order is in_production, also when assignToOperator is called from an admin
\* view whose displayed status is out of date.
C16_AssignedOnlyInProduction ==
  [][(order.assigned_operator_id = NULL /\ order'.assigned_operator_id # NULL)
       => order.status = "in_production"]_vars

\* The "Start Production" button of the job queue can be pressed.
StartControlEnabled == ~queue.loading /\ queue.job.status = "in_production"

\* C17: a control that triggers a status transition is disabled while its
\* request is outstanding, so each view (admin order details, job details,
\* job queue) has at most one transition request outstanding.
C17_ControlDisabledWhileOutstanding ==
  /\ \A v \in AdminViews : modal[v].request # NoRequest => modal[v].loading
  /\ jobModal.request # NoRequest => jobModal.saving
  /\ queue.starts # << >> => ~StartControlEnabled
  /\ Len(queue.starts) <= 1

\* The text t carries the store's message.
CarriesStoreMessage(t) == \E i \in 1..Len(t) : t[i] = StoreMessage

\* What the actor sees of a failed write: an error carrying the store's
\* message was thrown, an alert is shown, the parent is neither told of an
\* update nor asked to close, and the row is as it was.
FailureSurfaced ==
  /\ CarriesStoreMessage(ui'.thrown)
  /\ ui'.alert # NullText
  /\ ~ui'.updated
  /\ ~ui'.closed
  /\ order' = order

\* C19: when the store fails a status-writing call the service throws an
\* error carrying the store's message, the view shows an error, does not call
\* its updated callback, does not close, keeps the status it displayed and
\* its controls are usable again.
C19_FailedWriteSurfaced ==
  [][/\ \A v \in AdminViews :
          OrderRequestResolves(v, FALSE)
            => /\ FailureSurfaced
               /\ modal'[v].isOpen = modal[v].isOpen
               /\ modal'[v].order = modal[v].order
               /\ ~modal'[v].loading
     /\ JobRequestResolves(FALSE)
          => /\ FailureSurfaced
             /\ jobModal'.isOpen = jobModal.isOpen
             /\ jobModal'.job = jobModal.job
             /\ ~jobModal'.saving
     /\ \A i \in 1..MaxStarts :
          StartProductionResolves(i, FALSE)
            => /\ FailureSurfaced
               /\ queue'.job = queue.job
               /\ queue'.loading = queue.loading]_vars

\* C19 (witness): "Start Cutting" of the admin view failed in the store: the
\* view is open on the status it showed, with its buttons enabled and the
\* service's error shown.
C19_Witness ==
  /\ ui.view = "a1"
  /\ ui.thrown = ServiceError("updateOrderStatus")
  /\ ui.alert = ui.thrown
  /\ modal["a1"].isOpen
  /\ ~modal["a1"].loading
  /\ modal["a1"].order.status = "in_production"
  /\ order.status = "in_production"

\* The items of the order being loaded that have a design file.
WithFile == {k \in 1..Len(loader.items) : loader.items[k]}

\* C20: loading a detail view degrades gracefully: a failed history query
\* gives an empty history and a failed signed-URL lookup leaves that file
\* without a link, and neither keeps the payment-proof link or the other
\* items' links from being loaded, nor the order from being displayed.
C20_LoadDegradesGracefully ==
  /\ loader.pc # "idle" => loader.isOpen
  /\ (loader.pc = "done" /\ ~loader.operatorsFailed)
       => /\ loader.statusHistory =
               IF loader.historyFailed THEN << >> ELSE HistoryRows
          /\ loader.designFileUrls = WithFile \ loader.failed
          /\ (loader.hasProof /\ ~loader.proofFailed)
               => loader.paymentProofUrl = "proofUrl"
          /\ (loader.hasProof /\ loader.proofFailed)
               => loader.paymentProofUrl = NULL

\* C20 (witness): the admin view has loaded an order with a payment proof
\* and two design files; the history query and the first file's lookup
\* failed, the proof link and the second file's link are there.
C20_Witness ==
  /\ loader.pc = "done"
  /\ loader.view = "admin"
  /\ loader.historyFailed /\ loader.statusHistory = << >>
  /\ loader.failed = {1}
  /\ loader.designFileUrls = {2}
  /\ loader.paymentProofUrl = "proofUrl"

(***************************************************************************)
(* Claims about what the views offer and what the services write.          *)
(***************************************************************************)

\* The edges the section 4.1 table gives to each role.
AdminRoleEdges ==
  { <<"confirmation_pending", "in_production">>,
    <<"confirmation_pending", "pending">>,
    <<"pending", "cancelled">>,
    <<"confirmation_pending", "cancelled">>,
    <<"shipped", "delivered">> }

OperatorRoleEdges == TableEdges \ AdminRoleEdges

\* The transitions the buttons rendered by admin view v stand for, as edges
\* from the displayed status.
AdminEdgesOffered(v) ==
  IF ~modal[v].isOpen THEN {}
  ELSE LET st == modal[v].order.status
       IN  (IF st = "confirmation_pending"
              THEN {<<st, "in_production">>, <<st, "pending">>} ELSE {})
           \cup {<<st, t>> : t \in AdminOffers(modal[v].order)}

\* The transitions the buttons of the job queue and of the job details view
\* stand for.
OperatorEdgesOffered ==
  (IF ~queue.loading /\ queue.job.status = "in_production"
     THEN {<<"in_production", "cutting">>} ELSE {})
  \cup (IF jobModal.isOpen /\ NextStatus(jobModal.job.status) # NULL
          THEN {<<jobModal.job.status, NextStatus(jobModal.job.status)>>}
          ELSE {})

\* C21: each view offers only the transitions the section 4.1 table gives to
\* its role, from the displayed status: the admin view no operator edge, the
\* operator views no admin edge.
C21_ViewsOfferOwnRoleEdges ==
  /\ \A v \in AdminViews : AdminEdgesOffered(v) \subseteq AdminRoleEdges
  /\ OperatorEdgesOffered \subseteq OperatorRoleEdges

\* C22: in the operator portal the details view of a job in packaging offers
\* 'Mark as Shipped' (packaging -> shipped, through shipOrder), so the
\* operator can take a job to shipped in the operator portal alone.
C22_PackagingOffersShip ==
  (jobModal.isOpen /\ jobModal.job.status = "packaging")
    => <<"packaging", "shipped">> \in OperatorEdgesOffered

\* C23: the write of a successful status transition also records the
\* acting user in status_updated_by and the time of the transition in
\* status_updated_at.
C23_TransitionStamped ==
  [][StatusChanged =>
       /\ order'.status_updated_by \in Admins \cup Operators
       /\ order'.status_updated_at = now]_vars

\* A step in which a service call with these update fields resolved.
Wrote(fields) == result' = "ok" /\ order' = StoreUpdate(order, fields)

\* C24: assignment and note-taking are not status transitions:
\* assignToOperator and addProductionNotes change neither the status nor the
\* history, and updateJobStatus / updateOrderStatus called with empty or
\* absent notes leave operator_notes as they were.
C24_AssignmentAndNotesFrame ==
  [][/\ \A p \in Operators, a \in Admins :
          Wrote(AssignData(p, a))
            => (order'.status = order.status /\ history' = history)
     /\ \A n \in NoNotes \cup {<<"edges sanded">>}, p \in Operators :
          Wrote(NotesData(n, p))
            => (order'.status = order.status /\ history' = history)
     /\ \A st \in ProductionStatus, p \in Operators, n \in NoNotes :
          Wrote(JobUpdateData(st, p, n))
            => order'.operator_notes = order.operator_notes
     /\ \A st \in OrderStatus, a \in Admins, n \in NoNotes :
          Wrote(StatusUpdateData(st, a, n))
            => order'.operator_notes = order.operator_notes]_vars

\* C24 (witness): operator op1, to whom the order was assigned, moved it to
\* quality_check without notes, and the notes of the earlier rejection are
\* still there.
C24_Witness ==
  /\ order.status = "quality_check"
  /\ order.status_updated_by = "op1"
  /\ order.assigned_operator_id = "op1"
  /\ order.operator_notes = <<"Payment rejected: ", "blurry proof">>

(***************************************************************************)
(* Claims about the identity module under interleaved calls and events.    *)
(***************************************************************************)
\* The module has seen everything the provider did: no auth event waits
\* for its handler and no signIn()/signOut() call is between its request
\* and its return.
AuthQuiet == events = << >> /\ authOp = Idle

\* C25: a fetch that started before a cache invalidation (signOut, or a
\* detected identity change) does not write its result into the cache
\* afterwards: once the module has seen the provider's last change, a
\* non-null cached profile has the id of the current session's user, and
\* after sign-out no profile of the signed-out user is cached.
C25_NoStaleCacheWrite ==
  (AuthQuiet /\ currentUserCache.present /\ currentUserCache.user # NoUser)
    => currentUserCache.user.id = provSession.uid

\* C26: whenever the auth-change handler invokes the listener callback with
\* a non-null user for an event carrying session S, that user's id is
\* S.user.id, also when the handler's getCurrentUser() call joined a fetch
\* that was in flight for an earlier session.
C26_CallbackUserOfEventSession ==
  \A i \in 1..Len(out.notified) :
    out.notified[i].value # NoUser
      => out.notified[i].value.id = out.notified[i].forUid

\* Every handler registered by onAuthStateChange has run to its end: no
\* event waits and no handler awaits a fetch.
AllHandlersFinished ==
  events = << >> /\ \A f \in Slots : handlers[f] = << >>

\* C27: once all handlers have finished, the last value delivered to the
\* listener callback corresponds to the last identity-changing event: null
\* if that event carried no session, otherwise the profile of that
\* session's user (null is let through where that user's lookup failed).  A
\* fetch pending for an earlier sign-in does not deliver its user after the
\* null of a later sign-out.
C27_LastDeliveryMatchesLastEvent ==
  (AllHandlersFinished /\ out.notified # << >>) =>
    LET last == out.notified[Len(out.notified)].value
    IN  IF delivered = NULL THEN last = NoUser
        ELSE last # NoUser => last.id = delivered

\* C28: every getCurrentUser() call eventually resolves, whatever the
\* session lookup and the profile query do, also when they never answer: a
\* fetch in flight, with the callers that started or joined it, does not
\* stay pending forever.
C28_EveryFetchResolves ==
  \A f \in Slots : (fetches[f].pc # "free") ~> (fetches[f].pc = "free")

\* The handler of one subscription runs for the first waiting event.
HandlerRuns == events # << >> /\ (turn' # turn \/ events' = Tail(events))

\* The handler took the branch that invokes its callback: callback(null)
\* was called, or the handler awaits getCurrentUser() to call callback(user).
CallbackInvoked ==
  \/ out'.notified # << >>
  \/ \E f \in Slots : Len(handlers'[f]) = Len(handlers[f]) + 1

\* C29: with two or more callbacks subscribed, a change of the
\* authenticated identity invokes every subscribed callback: the identity
\* tracking the subscriptions share (lastUserId) does not make a later
\* subscription skip an event an earlier one has handled.
C29_EverySubscriptionNotified ==
  [][(HandlerRuns /\ Head(events).uid # delivered) => CallbackInvoked]_vars

\* signOut() returns from a provider call that reported an error.
SignOutFails == authOp.op = "signOut" /\ ~authOp.ok /\ authOp' = Idle

\* C30: when the provider's sign-out call fails, signOut() throws and
\* leaves the cached profile, the stored latest session and the in-flight
\* fetch markers exactly as they were, so getCurrentUser() answers as it
\* did before the call, with the user who is still signed in.
C30_FailedSignOutKeepsState ==
  [][SignOutFails =>
       /\ out'.did = "signOutFailed"
       /\ currentUserCache' = currentUserCache
       /\ latestSession' = latestSession
       /\ fetchInProgress' = fetchInProgress
       /\ fetchPromise' = fetchPromise
       /\ fetches' = fetches
       /\ GetCurrentUser(currentUserCache', latestSession', fetchInProgress',
                         fetchPromise', fetches')
            = GetCurrentUser(currentUserCache, latestSession, fetchInProgress,
                             fetchPromise, fetches)]_vars

\* C30 (witness): a signOut() has just failed while u1 is signed in, with
\* u1's profile cached and u1's session stored.
C30_Witness ==
  /\ out.did = "signOutFailed"
  /\ provSession.uid = "u1"
  /\ latestSession.uid = "u1"
  /\ currentUserCache.present
  /\ currentUserCache.user.id = "u1"

====
